---- MODULE Spec2Model ----
(***************************************************************************)
(* A model of the notification dispatch pipeline of nest-notification-svc: *)
(* NotificationService (sendNotification, determineChannels,               *)
(* updateNotificationStatus, retryFailedNotifications), the three Bull     *)
(* queues with their job options, the three queue processors (EmailWorker, *)
(* PushWorker, MqttWorker) and ChannelService.updateUserPreferences.       *)
(*                                                                         *)
(* Abstractions.  Timestamps (sentAt, failedAt) are kept as "set / null".  *)
(* A Notification's id is its position in the notifications table.  Job    *)
(* records stay in the queue after they complete or die (the trimming done *)
(* by removeOnComplete / removeOnFail only discards finished records).     *)
(* Time is a counter of abstract instants.  The backoff delay of a job     *)
(* that failed is not timed: the job may be run again at any later step.   *)
(* The channel adapters (SMTP, push gateway, MQTT broker) appear as the    *)
(* set of messages they accepted.                                          *)
(***************************************************************************)
EXTENDS Integers, Sequences, FiniteSets, TLC

VARIABLES
    notifications,   \* table "notifications": Seq of rows, id = index
    userPreference,  \* table "user_preferences": set of rows
    queues,          \* [channel -> Seq of job slots], slot i = job of notification i
    retry,           \* [pass -> state of one retryFailedNotifications call]
    lastSend,        \* history: the latest sendNotification call that persisted a row
    reply,           \* what the latest ingress caller got back
    now,             \* the clock (Date.now())
    templates,       \* table "notification_templates": active (type, channel) pairs
    delivered,       \* the messages the channel adapters accepted
    bulkTopic,       \* topic notification.bulk and the admin endpoint feeding it
    consumer,        \* KafkaConsumer: committed offset and the last message handled
    grpcReply,       \* the response of the latest SendBulkNotifications call
    stream,          \* one SendNotificationStream call
    cache,           \* TemplateRenderer.cache
    renderer,        \* a template, a variable map and the results of render
    monitor          \* PerformanceMonitor: counters and samples

\* the state outside the dispatch pipeline
peripheryVars == <<bulkTopic, consumer, grpcReply, stream, cache, renderer, monitor>>

vars == <<notifications, userPreference, queues, retry, lastSend, reply, now,
          templates, delivered, peripheryVars>>

----------------------------------------------------------------------------
(* Bounds of the model *)

MaxNotifs == 2       \* rows in the notifications table (lifecycle model)
MaxDispatch == 1     \* rows in the notifications table (dispatch model)
MaxRetryRows == 5    \* rows in the notifications table (retry model)
MaxPasses == 2       \* concurrent retryFailedNotifications calls (retry model)
MaxRuns == 2         \* processor runs, over all jobs (retry model)
MaxTime == 2         \* the clock runs from 0 to MaxTime (scheduling model)

----------------------------------------------------------------------------
(* Enumerations: Common/Types/notification.types *)

Users == {"u1", "u2"}

NotificationChannel == {"EMAIL", "PUSH", "SMS"}

NotificationType ==
    {"WELCOME", "PASSWORD_RESET", "EMAIL_VERIFICATION", "ORDER_CONFIRMATION",
     "ORDER_SHIPPED", "ORDER_DELIVERED", "PAYMENT_SUCCESS", "PAYMENT_FAILED"}

NotificationPriority == {"LOW", "NORMAL", "HIGH", "URGENT"}

NotificationStatus == {"QUEUED", "PROCESSING", "SENT", "FAILED"}

\* an absent optional field of SendNotificationData (channel?, priority?)
Absent == "ABSENT"

\* an absent scheduledAt (instants are numbers)
NoSchedule == -1

\* a type string outside the enum (SendNotificationData.type is NotificationType | string)
UnknownType == "PROMO"

\* status a row gets from prisma.notification.create (column default)
InitialStatus == "QUEUED"

\* retryCount a row gets from prisma.notification.create (column default)
InitialRetryCount == 0

----------------------------------------------------------------------------
(* BullModule defaultJobOptions and processor options *)

\* defaultJobOptions.attempts
Attempts == 3

\* @Process() without a concurrency option: one active job per queue
Concurrency == 1

\* a job slot; adapterOnly is history: every failed run so far of this job
\* failed in the channel adapter (rather than for a missing recipient)
NoJob == [state |-> "none", attemptsMade |-> 0, priority |-> 0, adapterOnly |-> TRUE,
          notificationId |-> 0, timestamp |-> 0, delay |-> 0]

----------------------------------------------------------------------------
(* NotificationService.getPriority *)

getPriority(priority) ==
    LET p == IF priority = Absent THEN "NORMAL" ELSE priority
    IN  CASE p = "LOW" -> 1
          [] p = "NORMAL" -> 5
          [] p = "HIGH" -> 10
          [] p = "URGENT" -> 20
          [] OTHER -> 5

----------------------------------------------------------------------------
(* NotificationService.getUserPreferences / determineChannels *)

getUserPreferences(userId) == {pref \in userPreference : pref.userId = userId}

\* JavaScript property read: a missing property is undefined, which is falsy
Truthy(row, field) == IF field \in DOMAIN row THEN row[field] = TRUE ELSE FALSE

defaultChannels(type) ==
    CASE type = "WELCOME" -> <<"EMAIL">>
      [] type = "ORDER_CONFIRMATION" -> <<"EMAIL", "PUSH">>
      [] type = "ORDER_SHIPPED" -> <<"PUSH", "SMS">>
      [] type = "ORDER_DELIVERED" -> <<"PUSH">>
      [] type = "PAYMENT_SUCCESS" -> <<"EMAIL">>
      [] type = "PAYMENT_FAILED" -> <<"EMAIL", "PUSH">>
      [] type = "PASSWORD_RESET" -> <<"EMAIL">>
      [] type = "EMAIL_VERIFICATION" -> <<"EMAIL">>
      [] OTHER -> <<"EMAIL">>

Range(s) == {s[i] : i \in DOMAIN s}

determineChannelsIgnoringPin(type, channel, userPreferences) ==
    LET enabledChannels == {pref.channel : pref \in {q \in userPreferences : Truthy(q, "enabled")}}
        Keep(c) == enabledChannels = {} \/ c \in enabledChannels
    IN  SelectSeq(defaultChannels(type), Keep)

determineChannels(type, channel, userPreferences) ==
    LET enabledChannels == {pref.channel : pref \in {q \in userPreferences : Truthy(q, "enabled")}}
        Keep(c) == enabledChannels = {} \/ c \in enabledChannels
    IN  IF channel # Absent
        THEN <<channel>>
        ELSE SelectSeq(defaultChannels(type), Keep)

----------------------------------------------------------------------------
(* NotificationService.sendNotification *)

NewRow(userId, type, channel, priority, scheduledAt) ==
    [userId |-> userId,
     type |-> type,
     channel |-> IF channel = Absent THEN "EMAIL" ELSE channel,
     priority |-> IF priority = Absent THEN "NORMAL" ELSE priority,
     status |-> InitialStatus,
     retryCount |-> InitialRetryCount,
     scheduledAt |-> scheduledAt,
     sentAt |-> FALSE,
     failedAt |-> FALSE]

\* (variant: the delay option left out)
jobDelayIgnored(scheduledAt) == 0

\* delay: scheduledAt ? new Date(scheduledAt).getTime() - Date.now() : 0
jobDelay(scheduledAt) == IF scheduledAt # NoSchedule THEN scheduledAt - now ELSE 0

\* (variant: the job data without the notification's id)
NewJobWithoutId(notificationId, priority, scheduledAt) ==
    [state |-> "waiting", attemptsMade |-> 0, priority |-> getPriority(priority),
     adapterOnly |-> TRUE, notificationId |-> 0,
     timestamp |-> now,
     delay |-> IF jobDelay(scheduledAt) < 0 THEN 0 ELSE jobDelay(scheduledAt)]

\* the queue stamps the job with the time it was added and takes a negative
\* delay as no delay
NewJob(notificationId, priority, scheduledAt) ==
    [state |-> "waiting", attemptsMade |-> 0, priority |-> getPriority(priority),
     adapterOnly |-> TRUE, notificationId |-> notificationId,
     timestamp |-> now,
     delay |-> IF jobDelay(scheduledAt) < 0 THEN 0 ELSE jobDelay(scheduledAt)]

\* a delayed job is held until its timestamp plus its delay
delayUntil(job) == job.timestamp + job.delay

\* the successful path: create the row, read the preferences, add one job per channel
sendNotification(userId, type, channel, priority, scheduledAt) ==
    LET channels == Range(determineChannels(type, channel, getUserPreferences(userId)))
        id == Len(notifications) + 1
    IN  /\ notifications' =
              Append(notifications, NewRow(userId, type, channel, priority, scheduledAt))
        /\ queues' = [c \in NotificationChannel |->
                        Append(queues[c], IF c \in channels
                                          THEN NewJob(id, priority, scheduledAt)
                                          ELSE NoJob)]
        /\ lastSend' = [id |-> id, channel |-> channel, failed |-> {}]

\* some queue.add rejects after the row was created: Promise.all rejects and
\* the error is re-thrown; the adds that did not fail have enqueued their job
sendNotificationQueueError(userId, type, channel, priority, scheduledAt, failed) ==
    LET channels == Range(determineChannels(type, channel, getUserPreferences(userId)))
        id == Len(notifications) + 1
    IN  /\ failed # {}
        /\ failed \subseteq channels
        /\ notifications' =
              Append(notifications, NewRow(userId, type, channel, priority, scheduledAt))
        /\ queues' = [c \in NotificationChannel |->
                        Append(queues[c], IF c \in channels \ failed
                                          THEN NewJob(id, priority, scheduledAt)
                                          ELSE NoJob)]
        /\ lastSend' = [id |-> id, channel |-> channel, failed |-> failed]

\* prisma.userPreference.findMany rejects after the row was created: the
\* private getUserPreferences has no catch, so the error reaches the catch of
\* sendNotification and is re-thrown before any queue.add
sendNotificationPreferenceError(userId, type, channel, priority, scheduledAt) ==
    /\ notifications' =
          Append(notifications, NewRow(userId, type, channel, priority, scheduledAt))
    /\ queues' = [c \in NotificationChannel |-> Append(queues[c], NoJob)]
    /\ lastSend' = [id |-> Len(notifications) + 1, channel |-> channel, failed |-> {}]

\* prisma.notification.create throws: the error is re-thrown, nothing is written
\* (variant: the error is thrown although the row was written)
sendNotificationStoreErrorAfterWrite ==
    /\ notifications' = Append(notifications,
                               NewRow("u1", "WELCOME", Absent, Absent, NoSchedule))
    /\ queues' = [c \in NotificationChannel |-> Append(queues[c], NoJob)]
    /\ UNCHANGED lastSend

sendNotificationStoreError ==
    UNCHANGED <<notifications, queues, lastSend>>

----------------------------------------------------------------------------
(* Ingress: a caller invokes sendNotification *)

Request(users, types, chans, prios, scheds, cap) ==
    \E userId \in users, type \in types, channel \in chans, priority \in prios,
       scheduledAt \in scheds :
        /\ Len(notifications) < cap
        /\ \/ /\ sendNotification(userId, type, channel, priority, scheduledAt)
              /\ reply' = "ok"
           \/ /\ sendNotificationStoreError
              /\ reply' = "store_error"
        /\ UNCHANGED <<userPreference, retry, now, templates, delivered,
                   peripheryVars>>

\* the same call when a queue is unavailable
RequestQueueError(users, types, chans, cap) ==
    \E userId \in users, type \in types, channel \in chans,
       failed \in SUBSET NotificationChannel :
        /\ Len(notifications) < cap
        /\ sendNotificationQueueError(userId, type, channel, Absent, NoSchedule, failed)
        /\ reply' = "queue_error"
        /\ UNCHANGED <<userPreference, retry, now, templates, delivered,
                   peripheryVars>>

\* the same call when the preference lookup fails
RequestPreferenceError(users, types, chans, cap) ==
    \E userId \in users, type \in types, channel \in chans :
        /\ Len(notifications) < cap
        /\ sendNotificationPreferenceError(userId, type, channel, Absent, NoSchedule)
        /\ reply' = "preference_error"
        /\ UNCHANGED <<userPreference, retry, now, templates, delivered,
                   peripheryVars>>

----------------------------------------------------------------------------
(* ChannelService.updateUserPreferences: upsert on (userId, channel) *)

updateUserPreferences(userId, channel, enabled) ==
    /\ userPreference' =
          {pref \in userPreference : ~(pref.userId = userId /\ pref.channel = channel)}
          \cup {[userId |-> userId, channel |-> channel, isEnabled |-> enabled]}
    /\ UNCHANGED <<notifications, queues, retry, lastSend, reply, now, templates,
                   delivered,
                   peripheryVars>>

UpdatePreferences(users) ==
    \E userId \in users, channel \in NotificationChannel, enabled \in BOOLEAN :
        updateUserPreferences(userId, channel, enabled)

----------------------------------------------------------------------------
(* NotificationService.updateNotificationStatus *)

updateNotificationStatusNoFailedAt(rows, notificationId, status) ==
    [rows EXCEPT ![notificationId] =
        [@ EXCEPT !.status = status,
                  !.sentAt = IF status = "SENT" THEN TRUE ELSE @]]

updateNotificationStatus(rows, notificationId, status) ==
    [rows EXCEPT ![notificationId] =
        [@ EXCEPT !.status = status,
                  !.sentAt = IF status = "SENT" THEN TRUE ELSE @,
                  !.failedAt = IF status = "FAILED" THEN TRUE ELSE @]]

----------------------------------------------------------------------------
(* Bull queue: which job a processor is handed, and what a failed run does *)

JobIds(c) == 1..Len(queues[c])

ActiveJobs(c) == {i \in JobIds(c) : queues[c][i].state = "active"}

WaitingJobs(c) == {i \in JobIds(c) : queues[c][i].state = "waiting"}

\* Bull hands out the waiting job with the smallest priority number
\* (1 is the highest priority); jobs of equal priority in no fixed order here,
\* since a job that failed re-enters the queue after its backoff delay
NextJobs(c) ==
    {i \in WaitingJobs(c) :
        \A j \in WaitingJobs(c) : queues[c][i].priority <= queues[c][j].priority}

\* the processor threw: attempts: 3 re-queues the job until attemptsMade = 3
moveToFailed(job, outcome) ==
    LET made == job.attemptsMade + 1
    IN  [job EXCEPT !.attemptsMade = made,
                    !.state = IF made < Attempts THEN "waiting" ELSE "failed",
                    !.adapterOnly = @ /\ outcome = "adaptererr"]

moveToCompleted(job) == [job EXCEPT !.state = "completed"]

\* the number of processor runs started so far on the jobs of one queue
RECURSIVE RunsIn(_)
RunsIn(jobs) ==
    IF jobs = <<>> THEN 0
    ELSE Head(jobs).attemptsMade
         + (IF Head(jobs).state \in {"active", "completed"} THEN 1 ELSE 0)
         + RunsIn(Tail(jobs))

Runs == RunsIn(queues["EMAIL"]) + RunsIn(queues["PUSH"]) + RunsIn(queues["SMS"])

----------------------------------------------------------------------------
(* The queue processors.  A run is two steps: the first await              *)
(* (status -> PROCESSING), then everything up to the return or throw.      *)

\* a waiting job is handed out once its delay has passed
ReadyJobs(c) == {i \in NextJobs(c) : delayUntil(queues[c][i]) <= now}

\* EmailWorker.sendEmail / PushWorker.sendPush / MqttWorker.sendSMS, first statement
ProcessStart(c) ==
    /\ Cardinality(ActiveJobs(c)) < Concurrency
    /\ \E slot \in ReadyJobs(c) :
        /\ queues' = [queues EXCEPT ![c][slot].state = "active"]
        /\ notifications' = updateNotificationStatus(notifications,
                                queues[c][slot].notificationId, "PROCESSING")
    /\ UNCHANGED <<userPreference, retry, lastSend, reply, now, templates, delivered,
                   peripheryVars>>

\* outcome "ok": recipient found and the adapter accepted the message
\* outcome "norecipient": getUserEmail / getDeviceTokens / getUserPhone gave nothing
\* outcome "adaptererr": sendMail / messaging().send / client.publish failed
Outcomes == {"ok", "norecipient", "adaptererr"}

\* ChannelService.getNotificationTemplate: the key of the active template
\* stored for (type, channel), or <<>> for null
getNotificationTemplate(type, channel) ==
    IF <<type, channel>> \in templates THEN <<type, channel>> ELSE <<>>

\* the message the processor of channel c hands to its adapter: the content
\* is rendered from the template the processor looked up, or is the job's
\* raw title and message
adapterCall(c, notificationId) ==
    [channel |-> c, notificationId |-> notificationId,
     template |-> getNotificationTemplate(c, c)]

\* (variant: the catch block records SENT)
ProcessCaughtAlwaysSent(c, slot, outcome) ==
    LET notificationId == queues[c][slot].notificationId
    IN  /\ IF outcome = "ok"
           THEN /\ delivered' = delivered \cup {adapterCall(c, notificationId)}
                /\ notifications' = updateNotificationStatus(notifications, notificationId, "SENT")
                /\ queues' = [queues EXCEPT ![c][slot] = moveToCompleted(@)]
           ELSE /\ UNCHANGED delivered
                /\ notifications' = updateNotificationStatus(notifications, notificationId, "SENT")
                /\ queues' = [queues EXCEPT ![c][slot] = moveToFailed(@, outcome)]

\* try { ... } catch { updateNotificationStatus(FAILED); throw } around awaited calls
ProcessCaught(c, slot, outcome) ==
    LET notificationId == queues[c][slot].notificationId
    IN  /\ IF outcome = "ok"
           THEN /\ delivered' = delivered \cup {adapterCall(c, notificationId)}
                /\ notifications' = updateNotificationStatus(notifications, notificationId, "SENT")
                /\ queues' = [queues EXCEPT ![c][slot] = moveToCompleted(@)]
           ELSE /\ UNCHANGED delivered
                /\ notifications' = updateNotificationStatus(notifications, notificationId, "FAILED")
                /\ queues' = [queues EXCEPT ![c][slot] = moveToFailed(@, outcome)]

sendEmail(outcomes) ==
    /\ \E slot \in ActiveJobs("EMAIL"), outcome \in outcomes :
        ProcessCaught("EMAIL", slot, outcome)
    /\ UNCHANGED <<userPreference, retry, lastSend, reply, now, templates,
                   peripheryVars>>

sendPush(outcomes) ==
    /\ \E slot \in ActiveJobs("PUSH"), outcome \in outcomes :
        ProcessCaught("PUSH", slot, outcome)
    /\ UNCHANGED <<userPreference, retry, lastSend, reply, now, templates,
                   peripheryVars>>

\* the publish promise is returned without await, so its rejection bypasses
\* the catch block: the job fails and the status is left as it is
sendSMS(outcomes) ==
    /\ \E slot \in ActiveJobs("SMS"), outcome \in outcomes :
        IF outcome = "adaptererr"
        THEN /\ queues' = [queues EXCEPT !["SMS"][slot] = moveToFailed(@, outcome)]
             /\ UNCHANGED <<notifications, delivered>>
        ELSE ProcessCaught("SMS", slot, outcome)
    /\ UNCHANGED <<userPreference, retry, lastSend, reply, now, templates,
                   peripheryVars>>

----------------------------------------------------------------------------
(* NotificationService.retryFailedNotifications, one call per pass p.      *)
(* findMany has no orderBy; the rows are taken in table order.  The        *)
(* attributes handed to sendNotification are never written after create,   *)
(* so they are read from the table when the row's turn comes.              *)

RetryLimit == 3

RetryTake == 100

\* the ids 1..n in ascending order
Ids(n) == [i \in 1..n |-> i]

Take(seq, n) == SubSeq(seq, 1, IF Len(seq) < n THEN Len(seq) ELSE n)

findFailedAnyCount(rows) ==
    LET Failed(i) == rows[i].status = "FAILED"
        ids == Take(SelectSeq(Ids(Len(rows)), Failed), RetryTake)
    IN  [k \in 1..Len(ids) |-> [id |-> ids[k], retryCount |-> rows[ids[k]].retryCount]]

findFailed(rows) ==
    LET Failed(i) == rows[i].status = "FAILED" /\ rows[i].retryCount < RetryLimit
        ids == Take(SelectSeq(Ids(Len(rows)), Failed), RetryTake)
    IN  [k \in 1..Len(ids) |-> [id |-> ids[k], retryCount |-> rows[ids[k]].retryCount]]

\* const failedNotifications = await findMany(...): the snapshot of the pass
retryFind(p) ==
    /\ retry[p].pc = "idle"
    /\ LET failedNotifications == findFailed(notifications)
       IN  /\ failedNotifications # <<>>
           /\ retry' = [retry EXCEPT ![p] = [pc |-> "send", todo |-> failedNotifications]]
    /\ UNCHANGED <<notifications, userPreference, queues, lastSend, reply, now,
                   templates, delivered,
                   peripheryVars>>

\* await this.sendNotification({...notification}) for the row at the head
retrySend(p, cap) ==
    /\ retry[p].pc = "send"
    /\ Len(notifications) < cap
    /\ LET row == notifications[Head(retry[p].todo).id]
       IN  \/ /\ sendNotification(row.userId, row.type, row.channel, row.priority,
                                   NoSchedule)
              /\ retry' = [retry EXCEPT ![p].pc = "update"]
           \/ /\ sendNotificationStoreError
              /\ retry' = [retry EXCEPT ![p] = [pc |-> "idle", todo |-> <<>>]]
    /\ UNCHANGED <<userPreference, reply, now, templates, delivered,
                   peripheryVars>>

\* the same iteration when a queue is unavailable: the row is created, the
\* error leaves the loop and the selected row's retryCount is not written
retrySendQueueError(p, cap) ==
    /\ retry[p].pc = "send"
    /\ Len(notifications) < cap
    /\ LET row == notifications[Head(retry[p].todo).id]
       IN  \E failed \in SUBSET NotificationChannel :
              sendNotificationQueueError(row.userId, row.type, row.channel, row.priority,
                                         NoSchedule, failed)
    /\ retry' = [retry EXCEPT ![p] = [pc |-> "idle", todo |-> <<>>]]
    /\ UNCHANGED <<userPreference, reply, now, templates, delivered,
                   peripheryVars>>

\* (variant: the update raises the count by two)
retryUpdateByTwo(p) ==
    /\ retry[p].pc = "update"
    /\ LET n == Head(retry[p].todo)
           rest == Tail(retry[p].todo)
       IN  /\ notifications' = [notifications EXCEPT ![n.id].retryCount = n.retryCount + 2]
           /\ retry' = [retry EXCEPT ![p] =
                          [pc |-> IF rest = <<>> THEN "idle" ELSE "send", todo |-> rest]]
    /\ UNCHANGED <<userPreference, queues, lastSend, reply, now, templates, delivered,
                   peripheryVars>>

\* data: { retryCount: notification.retryCount + 1 }, computed from the snapshot
retryUpdate(p) ==
    /\ retry[p].pc = "update"
    /\ LET n == Head(retry[p].todo)
           rest == Tail(retry[p].todo)
       IN  /\ notifications' = [notifications EXCEPT ![n.id].retryCount = n.retryCount + 1]
           /\ retry' = [retry EXCEPT ![p] =
                          [pc |-> IF rest = <<>> THEN "idle" ELSE "send", todo |-> rest]]
    /\ UNCHANGED <<userPreference, queues, lastSend, reply, now, templates, delivered,
                   peripheryVars>>

\* rows of notification_templates are written outside this service; type is
\* a NotificationType and channel a NotificationChannel
TemplateStored(keys) ==
    /\ \E key \in keys : templates' \in {templates \cup {key}, templates \ {key}}
    /\ templates' # templates
    /\ UNCHANGED <<notifications, userPreference, queues, retry, lastSend, reply, now,
                   delivered,
                   peripheryVars>>

\* time passes
Tick ==
    /\ now < MaxTime
    /\ now' = now + 1
    /\ UNCHANGED <<notifications, userPreference, queues, retry, lastSend, reply,
                   templates, delivered,
                   peripheryVars>>

----------------------------------------------------------------------------
(* Initial values of the state outside the dispatch pipeline *)

\* nothing published on notification.bulk, no admin request served; length and
\* status are those of the latest request
NoBulk == [length |-> 0, messages |-> <<>>, requests |-> 0, status |-> "NONE"]

\* KafkaConsumer before any message: nothing handled, nothing committed
\* message: topic, kind and event type of the last message, and the number of
\* its bulk notifications
NoMessage == [batches |-> <<>>, calls |-> <<>>, handled |-> 0,
              message |-> [eventType |-> "", hasBulk |-> FALSE, kind |-> "empty",
                           length |-> 0, topic |-> ""],
              offset |-> 0, returned |-> TRUE]

\* no SendBulkNotifications call served yet; results is the settled dispatches
\* of the latest call
NoReply == [failureCount |-> 0, notificationIds |-> <<>>, results |-> <<>>,
            served |-> 0, success |-> TRUE, successCount |-> 0]

\* a stream just opened: requests counts the requests received (request i
\* has requestId i), pending holds the requests whose dispatch is awaited,
\* responses is what the response stream emitted, answered the request of each
\* response, completed tells that the response stream has completed
NoStream == [answered |-> <<>>, completed |-> FALSE, pending |-> {}, requests |-> 0,
             responses |-> <<>>]

\* new Map(): entries in insertion order; used numbers the calls (a cache
\* entry carries the number of its last insertion or hit), last is the latest call
EmptyCache == [entries |-> <<>>, last |-> [key |-> 0, op |-> "none"], uses |-> 0]

\* no template rendered; results holds the successive results of render
NoRender == [results |-> <<>>,
             template |-> [htmlContent |-> <<>>, message |-> <<>>, title |-> <<>>],
             variables |-> <<>>]

\* new PerformanceMonitor: no sample, counters at zero
NewMonitor == [metrics |-> <<>>, totalErrors |-> 0, totalProcessed |-> 0]

----------------------------------------------------------------------------
Init ==
    /\ notifications = <<>>
    /\ userPreference = {}
    /\ queues = [c \in NotificationChannel |-> <<>>]
    /\ retry = [p \in 1..MaxPasses |-> [pc |-> "idle", todo |-> <<>>]]
    /\ lastSend = [id |-> 0, channel |-> Absent, failed |-> {}]
    /\ reply = "none"
    /\ now = 0
    /\ templates = {}
    /\ delivered = {}
    /\ bulkTopic = NoBulk
    /\ consumer = NoMessage
    /\ grpcReply = NoReply
    /\ stream = NoStream
    /\ cache = EmptyCache
    /\ renderer = NoRender
    /\ monitor = NewMonitor

(* The dispatch model: preferences and sendNotification calls *)
NextDispatch ==
    \/ UpdatePreferences({"u1"})
    \/ Request(Users, NotificationType \cup {UnknownType},
               NotificationChannel \cup {Absent}, {Absent}, {NoSchedule}, MaxDispatch)

SpecDispatch == Init /\ [][NextDispatch]_vars

(* The lifecycle model: one accepted request and everything that descends *)
(* from it: the three processors and a retry pass                          *)
Next ==
    \/ /\ notifications = <<>>
       /\ Request({"u1"}, {"ORDER_CONFIRMATION", "ORDER_SHIPPED"},
                  {"EMAIL", Absent}, {Absent}, {NoSchedule}, MaxNotifs)
    \/ \E c \in NotificationChannel : ProcessStart(c)
    \/ sendEmail(Outcomes)
    \/ sendPush(Outcomes)
    \/ sendSMS(Outcomes)
    \/ retryFind(1)
    \/ retrySend(1, MaxNotifs)
    \/ retryUpdate(1)

Spec == Init /\ [][Next]_vars

(* The retry model: one accepted request, a bounded number of runs of the  *)
(* email processor, and concurrent retry passes                            *)
NextRetry ==
    \/ /\ notifications = <<>>
       /\ Request({"u1"}, {"WELCOME"}, {"EMAIL"}, {Absent}, {NoSchedule}, MaxRetryRows)
    \/ Runs < MaxRuns /\ ProcessStart("EMAIL")
    \/ sendEmail({"ok", "adaptererr"})
    \/ \E p \in 1..MaxPasses : retryFind(p)
    \/ \E p \in 1..MaxPasses : retrySend(p, MaxRetryRows)
    \/ \E p \in 1..MaxPasses : retryUpdate(p)

SpecRetry == Init /\ [][NextRetry]_vars

\* the rows of the single-pass model
MaxPassRows == 3

(* The single-pass model: one accepted request, the email processor with  *)
(* either outcome, and retryFailedNotifications invoked one invocation     *)
(* after the other                                                         *)
NextPass ==
    \/ /\ notifications = <<>>
       /\ Request({"u1"}, {"WELCOME"}, {"EMAIL"}, {Absent}, {NoSchedule}, MaxPassRows)
    \/ ProcessStart("EMAIL")
    \/ sendEmail({"ok", "adaptererr"})
    \/ retryFind(1)
    \/ retrySend(1, MaxPassRows)
    \/ retryUpdate(1)

SpecPass == Init /\ [][NextPass]_vars

(* The exhaustion model: one accepted request whose adapter fails on every *)
(* attempt, and retryFailedNotifications invoked again and again, one      *)
(* invocation after the other                                              *)
NextExhaust ==
    \/ /\ notifications = <<>>
       /\ Request({"u1"}, {"WELCOME"}, {"EMAIL"}, {Absent}, {NoSchedule}, MaxRetryRows)
    \/ ProcessStart("EMAIL")
    \/ sendEmail({"adaptererr"})
    \/ retryFind(1)
    \/ retrySend(1, MaxRetryRows)
    \/ retryUpdate(1)

SpecExhaust == Init /\ [][NextExhaust]_vars

\* the instants a request can name as scheduledAt
Schedules == {NoSchedule} \cup 0..MaxTime

(* The scheduling model: one accepted request, with or without            *)
(* scheduledAt, made at any instant, and the three processors              *)
NextSchedule ==
    \/ Tick
    \/ /\ notifications = <<>>
       /\ Request({"u1"}, {"ORDER_SHIPPED"}, {"EMAIL", Absent}, {Absent}, Schedules,
                  MaxNotifs)
    \/ \E c \in NotificationChannel : ProcessStart(c)
    \/ sendEmail({"ok", "adaptererr"})
    \/ sendPush({"ok", "adaptererr"})
    \/ sendSMS({"ok", "adaptererr"})

SpecSchedule == Init /\ [][NextSchedule]_vars

(* The priority model: requests of every priority on the email queue and   *)
(* the email processor                                                     *)
NextPriority ==
    \/ Request({"u1"}, {"WELCOME"}, {"EMAIL"}, NotificationPriority \cup {Absent},
               {NoSchedule}, MaxNotifs)
    \/ ProcessStart("EMAIL")
    \/ sendEmail({"ok", "adaptererr"})

SpecPriority == Init /\ [][NextPriority]_vars

(* The ingress model: requests that succeed, that fail in the store and    *)
(* that fail in a queue, the push and SMS processors (no device token is   *)
(* registered, the broker accepts every message) and a retry pass          *)
NextIngress ==
    \/ Request({"u1"}, {"ORDER_SHIPPED"}, {"SMS", Absent}, {Absent}, {NoSchedule},
               MaxNotifs)
    \/ RequestQueueError({"u1"}, {"ORDER_SHIPPED"}, {"SMS", Absent}, MaxNotifs)
    \/ \E c \in {"PUSH", "SMS"} : ProcessStart(c)
    \/ sendPush({"norecipient"})
    \/ sendSMS({"ok"})
    \/ retryFind(1)
    \/ retrySend(1, MaxNotifs)
    \/ retrySendQueueError(1, MaxNotifs)
    \/ retryUpdate(1)

SpecIngress == Init /\ [][NextIngress]_vars

(* The recipient model: one accepted request; the adapters accept every    *)
(* message, so a run fails only when the recipient is missing              *)
NextRecipient ==
    \/ /\ notifications = <<>>
       /\ Request({"u1"}, {"ORDER_SHIPPED"}, {"PUSH", Absent}, {Absent}, {NoSchedule},
                  MaxNotifs)
    \/ \E c \in {"PUSH", "SMS"} : ProcessStart(c)
    \/ sendPush({"ok", "norecipient"})
    \/ sendSMS({"ok", "norecipient"})
    \/ retryFind(1)
    \/ retrySend(1, MaxNotifs)
    \/ retryUpdate(1)

SpecRecipient == Init /\ [][NextRecipient]_vars

(* The template model: templates stored and withdrawn, one accepted        *)
(* request and the three processors                                        *)
NextTemplate ==
    \/ TemplateStored({<<"WELCOME", "EMAIL">>, <<"ORDER_SHIPPED", "PUSH">>})
    \/ /\ notifications = <<>>
       /\ Request({"u1"}, {"WELCOME", "ORDER_SHIPPED"}, {Absent}, {Absent}, {NoSchedule},
                  MaxNotifs)
    \/ \E c \in NotificationChannel : ProcessStart(c)
    \/ sendEmail({"ok", "adaptererr"})
    \/ sendPush({"ok", "adaptererr"})
    \/ sendSMS({"ok", "adaptererr"})

SpecTemplate == Init /\ [][NextTemplate]_vars

----------------------------------------------------------------------------
(* Bounds of the ingress models *)

MaxBulkMessages == 2   \* messages consumed from notification.bulk (bulk model)
MaxEvents == 2         \* messages consumed from the event topics (event model)

----------------------------------------------------------------------------
(* NotificationService.sendNotification for a sequence of calls; a call marked
   failed throws from prisma.notification.create and writes nothing *)

\* the calls that did not fail
Succeeded(calls) ==
    LET IsOk(call) == ~call.failed
    IN  SelectSeq(calls, IsOk)

\* prisma.notification.create of every successful call
rowsCreated(calls) ==
    LET ok == Succeeded(calls)
    IN  notifications \o
            [i \in 1..Len(ok) |->
                NewRow(ok[i].userId, ok[i].type, ok[i].channel, ok[i].priority,
                       ok[i].scheduledAt)]

\* queue.add of every successful call, one job per channel
jobsAdded(calls) ==
    LET ok == Succeeded(calls)
        first == Len(notifications)
        Channels(call) ==
            Range(determineChannels(call.type, call.channel, getUserPreferences(call.userId)))
    IN  [c \in NotificationChannel |-> queues[c] \o
            [i \in 1..Len(ok) |->
                IF c \in Channels(ok[i])
                THEN NewJob(first + i, ok[i].priority, ok[i].scheduledAt)
                ELSE NoJob]]

sendNotifications(calls) ==
    /\ notifications' = rowsCreated(calls)
    /\ queues' = jobsAdded(calls)
    /\ lastSend' = LET ok == Succeeded(calls)
                   IN  IF ok = <<>> THEN lastSend
                       ELSE [id |-> Len(notifications) + Len(ok),
                             channel |-> ok[Len(ok)].channel, failed |-> {}]
    /\ reply' = IF calls = <<>> THEN reply
                ELSE IF calls[Len(calls)].failed THEN "store_error" ELSE "ok"

----------------------------------------------------------------------------
(* NotificationService.processEvent and the per-topic handlers: the
   sendNotification calls an event causes *)

Call(userId, type, channel, priority) ==
    [channel |-> channel, item |-> 1, priority |-> priority,
     scheduledAt |-> NoSchedule, type |-> type, userId |-> userId]

handleUserEvent(data) ==
    CASE data.eventType = "USER_REGISTERED" ->
            <<Call(data.userId, "WELCOME", "EMAIL", Absent)>>
      [] data.eventType = "USER_UPDATED" -> <<>>
      [] OTHER -> <<>>

\* (variant: the password reset without its priority)
handleAuthEventNoPriority(data) ==
    CASE data.eventType = "PASSWORD_RESET_REQUESTED" ->
            <<Call(data.userId, "PASSWORD_RESET", "EMAIL", Absent)>>
      [] data.eventType = "EMAIL_VERIFICATION_REQUESTED" ->
            <<Call(data.userId, "EMAIL_VERIFICATION", "EMAIL", Absent)>>
      [] OTHER -> <<>>

handleAuthEvent(data) ==
    CASE data.eventType = "PASSWORD_RESET_REQUESTED" ->
            <<Call(data.userId, "PASSWORD_RESET", "EMAIL", "HIGH")>>
      [] data.eventType = "EMAIL_VERIFICATION_REQUESTED" ->
            <<Call(data.userId, "EMAIL_VERIFICATION", "EMAIL", Absent)>>
      [] OTHER -> <<>>

handleOrderEvent(data) ==
    CASE data.eventType = "ORDER_CREATED" ->
            <<Call(data.userId, "ORDER_CONFIRMATION", "EMAIL", Absent)>>
      [] data.eventType = "ORDER_SHIPPED" ->
            <<Call(data.userId, "ORDER_SHIPPED", "PUSH", Absent)>>
      [] data.eventType = "ORDER_DELIVERED" ->
            <<Call(data.userId, "ORDER_DELIVERED", "PUSH", Absent)>>
      [] OTHER -> <<>>

handlePaymentEvent(data) ==
    CASE data.eventType = "PAYMENT_SUCCESS" ->
            <<Call(data.userId, "PAYMENT_SUCCESS", "EMAIL", Absent)>>
      [] data.eventType = "PAYMENT_FAILED" ->
            <<Call(data.userId, "PAYMENT_FAILED", "EMAIL", "HIGH")>>
      [] OTHER -> <<>>

processEvent(topic, data) ==
    CASE topic = "user.events" -> handleUserEvent(data)
      [] topic = "auth.events" -> handleAuthEvent(data)
      [] topic = "order.events" -> handleOrderEvent(data)
      [] topic = "payment.events" -> handlePaymentEvent(data)
      [] OTHER -> <<>>

----------------------------------------------------------------------------
(* KafkaConsumer *)

\* const batchSize = 100
batchSize == 100

\* Array.prototype.slice(start, end) with 0-based start and exclusive end
slice(s, start, end) ==
    SubSeq(s, start + 1, IF end > Len(s) THEN Len(s) ELSE end)

\* (variant: each slice runs one item into the next)
bulkBatchesOverlapping(bulkNotifications) ==
    [k \in 1..((Len(bulkNotifications) + batchSize - 1) \div batchSize) |->
        slice(bulkNotifications, (k - 1) * batchSize, (k - 1) * batchSize + batchSize + 1)]

\* for (i = 0; i < length; i += batchSize) slice(i, i + batchSize)
bulkBatches(bulkNotifications) ==
    [k \in 1..((Len(bulkNotifications) + batchSize - 1) \div batchSize) |->
        slice(bulkNotifications, (k - 1) * batchSize, (k - 1) * batchSize + batchSize)]

RECURSIVE Concat(_)
Concat(seqs) == IF seqs = <<>> THEN <<>> ELSE Head(seqs) \o Concat(Tail(seqs))

\* processNotificationBatch: one sendNotification per item of the batch, settled
\* together, so that no rejection leaves the batch
processNotificationBatch(batch) ==
    [i \in 1..Len(batch) |->
        [channel |-> batch[i].channel, item |-> batch[i].item,
         priority |-> batch[i].priority, scheduledAt |-> batch[i].scheduledAt,
         type |-> batch[i].type, userId |-> batch[i].userId]]

\* handleBulkNotifications: the calls of all sub-batches, settled together
handleBulkNotifications(eventData) ==
    LET batches == bulkBatches(eventData.bulkNotifications)
    IN  Concat([k \in 1..Len(batches) |-> processNotificationBatch(batches[k])])

\* the calls with their outcome: the calls at the positions in failure fail
Outcome(calls, failure) ==
    [i \in 1..Len(calls) |->
        [channel |-> calls[i].channel, failed |-> i \in failure,
         item |-> calls[i].item, priority |-> calls[i].priority,
         scheduledAt |-> calls[i].scheduledAt,
         type |-> calls[i].type, userId |-> calls[i].userId]]

\* the message kinds: no value, a value JSON.parse rejects, the JSON value null,
\* a JSON object
MessageKinds == {"empty", "unparseable", "null", "json"}

\* (variant: the body outside a try block)
handleMessageUncaught(topics, values, failures, cap) ==
    \E topic \in topics, value \in values, failure \in failures :
        LET bulk == topic = "notification.bulk" /\ value.kind = "json" /\ value.hasBulk
            calls == IF value.kind # "json" THEN <<>>
                     ELSE IF bulk THEN handleBulkNotifications(value)
                     ELSE processEvent(topic, value)
            made == Outcome(calls, failure)
            thrown == \/ value.kind = "unparseable"
                      \/ value.kind = "null"
                      \/ ~bulk /\ \E i \in 1..Len(calls) : i \in failure
            caught == FALSE
            returned == ~thrown \/ caught
        IN  /\ consumer.handled < cap
            /\ sendNotifications(made)
            /\ consumer' =
                  [batches |-> IF bulk
                               THEN [k \in 1..Len(bulkBatches(value.bulkNotifications)) |->
                                        Len(bulkBatches(value.bulkNotifications)[k])]
                               ELSE <<>>,
                   calls |-> made,
                   handled |-> consumer.handled + 1,
                   message |-> [eventType |-> value.eventType,
                                hasBulk |-> value.hasBulk, kind |-> value.kind,
                                length |-> Len(value.bulkNotifications),
                                topic |-> topic],
                   offset |-> IF returned THEN consumer.offset + 1 ELSE consumer.offset,
                   returned |-> returned]
            /\ UNCHANGED <<userPreference, retry, now, templates, delivered,
                           bulkTopic, grpcReply, stream, cache, renderer, monitor>>

\* handleMessage, the eachMessage callback: the whole body runs in a try block
\* whose catch only logs; the offset is committed when the callback returns.
\* failure names the calls whose dispatch fails
handleMessage(topics, values, failures, cap) ==
    \E topic \in topics, value \in values, failure \in failures :
        LET bulk == topic = "notification.bulk" /\ value.kind = "json" /\ value.hasBulk
            calls == IF value.kind # "json" THEN <<>>
                     ELSE IF bulk THEN handleBulkNotifications(value)
                     ELSE processEvent(topic, value)
            made == Outcome(calls, failure)
            thrown == \/ value.kind = "unparseable"
                      \/ value.kind = "null"
                      \/ ~bulk /\ \E i \in 1..Len(calls) : i \in failure
            caught == TRUE
            returned == ~thrown \/ caught
        IN  /\ consumer.handled < cap
            /\ sendNotifications(made)
            /\ consumer' =
                  [batches |-> IF bulk
                               THEN [k \in 1..Len(bulkBatches(value.bulkNotifications)) |->
                                        Len(bulkBatches(value.bulkNotifications)[k])]
                               ELSE <<>>,
                   calls |-> made,
                   handled |-> consumer.handled + 1,
                   message |-> [eventType |-> value.eventType,
                                hasBulk |-> value.hasBulk, kind |-> value.kind,
                                length |-> Len(value.bulkNotifications),
                                topic |-> topic],
                   offset |-> IF returned THEN consumer.offset + 1 ELSE consumer.offset,
                   returned |-> returned]
            /\ UNCHANGED <<userPreference, retry, now, templates, delivered,
                           bulkTopic, grpcReply, stream, cache, renderer, monitor>>

\* a JSON object carrying an event
Event(eventType, userId) ==
    [bulkNotifications |-> <<>>, eventType |-> eventType, hasBulk |-> FALSE,
     kind |-> "json", userId |-> userId]

\* a message without a usable object
NoObject(kind) ==
    [bulkNotifications |-> <<>>, eventType |-> "", hasBulk |-> FALSE,
     kind |-> kind, userId |-> ""]

\* the chunk KafkaProducer.sendBulkNotifications publishes: n notifications
BulkMessage(n) ==
    [bulkNotifications |->
        [i \in 1..n |-> [channel |-> Absent, item |-> i, priority |-> Absent,
                         scheduledAt |-> NoSchedule, type |-> "WELCOME",
                         userId |-> "u1"]],
     eventType |-> "", hasBulk |-> TRUE, kind |-> "json", userId |-> ""]

\* bulk model: messages of 0 to 250 notifications; no dispatch, the first, the
\* two around the first sub-batch boundary, or every dispatch fails
BulkSizes == {0, 1, 100, 101, 250}

BulkFailures == {{}, {1}, {100, 101}, 1..250}

NextBulk ==
    handleMessage({"notification.bulk"}, {BulkMessage(n) : n \in BulkSizes},
                  BulkFailures, MaxBulkMessages)

SpecBulk == Init /\ [][NextBulk]_vars

\* event model: every topic the consumer subscribes to and one it does not,
\* every event type of the table and one outside it
Topics == {"user.events", "auth.events", "order.events", "payment.events",
           "notification.bulk"}

EventTypes == {"USER_REGISTERED", "USER_UPDATED", "PASSWORD_RESET_REQUESTED",
               "EMAIL_VERIFICATION_REQUESTED", "ORDER_CREATED", "ORDER_SHIPPED",
               "ORDER_DELIVERED", "PAYMENT_SUCCESS", "PAYMENT_FAILED"}

NextEvents ==
    handleMessage(Topics \cup {"audit.events"},
                  {Event(e, "u1") : e \in EventTypes \cup {"USER_DELETED"}}
                      \cup {NoObject(k) : k \in MessageKinds \ {"json"}}
                      \cup {BulkMessage(2)},
                  {{}, {1}}, MaxEvents)

SpecEvents == Init /\ [][NextEvents]_vars

----------------------------------------------------------------------------
(* NotificationGrpcController.sendBulkNotifications *)

MaxBulkItems == 3     \* notifications in one SendBulkNotifications request
MaxBulkCalls == 1     \* SendBulkNotifications requests

\* the ids of the rows the fulfilled dispatches created
fulfilledIds(results) ==
    [i \in 1..Len(Succeeded(results)) |-> Len(notifications) + i]

\* (variant: success as soon as one dispatch succeeded)
bulkResponseAnySuccess(results, served) ==
    LET successCount == Len(Succeeded(results))
        failureCount == Len(results) - Len(Succeeded(results))
    IN  [failureCount |-> failureCount,
         notificationIds |-> fulfilledIds(results),
         results |-> results,
         served |-> served,
         success |-> successCount > 0,
         successCount |-> successCount]

\* the response computed from the settled results
bulkResponse(results, served) ==
    LET successCount == Len(Succeeded(results))
        failureCount == Len(results) - Len(Succeeded(results))
    IN  [failureCount |-> failureCount,
         notificationIds |-> fulfilledIds(results),
         results |-> results,
         served |-> served,
         success |-> failureCount = 0,
         successCount |-> successCount]

\* a request item
BulkItem(i, type) ==
    [channel |-> Absent, item |-> i, priority |-> Absent, scheduledAt |-> NoSchedule,
     type |-> type, userId |-> "u1"]

\* one sendNotification per item, all settled, then the response
grpcSendBulkNotifications(types, failures, cap) ==
    \E n \in 0..MaxBulkItems :
        \E itemTypes \in [1..n -> types], failure \in failures :
            LET results == Outcome([i \in 1..n |-> BulkItem(i, itemTypes[i])],
                                   failure \cap 1..n)
            IN  /\ grpcReply.served < cap
                /\ sendNotifications(results)
                /\ grpcReply' = bulkResponse(results, grpcReply.served + 1)
                /\ UNCHANGED <<userPreference, retry, now, templates, delivered,
                               bulkTopic, consumer, stream, cache, renderer, monitor>>

NextGrpcBulk ==
    grpcSendBulkNotifications({"WELCOME", "ORDER_SHIPPED", "PAYMENT_FAILED"},
                              {{}, {1}, {2}, {1, 3}, 1..(MaxBulkItems + 1)},
                              MaxBulkCalls)

SpecGrpcBulk == Init /\ [][NextGrpcBulk]_vars

----------------------------------------------------------------------------
(* NotificationController.sendBulkNotifications and
   KafkaProducer.sendBulkNotifications *)

MaxBulkRequests == 2   \* requests to the admin bulk endpoint

\* body.notifications.length > 10000 is rejected
maxBulkNotifications == 10000

\* const chunkSize = 1000
chunkSize == 1000

\* a body without a notifications array
NoArray == -1

\* (variant: the limit itself is rejected)
rejectedBelowLimit(length) ==
    \/ length = NoArray
    \/ length = 0
    \/ length >= maxBulkNotifications

\* the two guards of the controller
rejected(length) ==
    \/ length = NoArray
    \/ length = 0
    \/ length > maxBulkNotifications

\* one message per chunk of at most chunkSize notifications; a message is
\* represented by the number of notifications it carries
producerChunks(length) ==
    [index \in 1..((length + chunkSize - 1) \div chunkSize) |->
        [chunkIndex |-> index - 1,
         length |-> IF index * chunkSize <= length THEN chunkSize
                    ELSE length - (index - 1) * chunkSize,
         totalChunks |-> (length + chunkSize - 1) \div chunkSize,
         totalNotifications |-> length]]

adminSendBulkNotifications(lengths, cap) ==
    \E length \in lengths :
        /\ bulkTopic.requests < cap
        /\ bulkTopic' =
              [length |-> length,
               messages |-> IF rejected(length) THEN bulkTopic.messages
                            ELSE bulkTopic.messages \o producerChunks(length),
               requests |-> bulkTopic.requests + 1,
               status |-> IF rejected(length) THEN "BAD_REQUEST" ELSE "CREATED"]
        /\ UNCHANGED <<notifications, userPreference, queues, retry, lastSend, reply,
                       now, templates, delivered, consumer, grpcReply, stream, cache,
                       renderer, monitor>>

\* request sizes around the two limits and the chunk size
AdminLengths == {NoArray, 0, 1, 2, 999, 1000, 1001, 2000, 9999, 10000, 10001, 20000}

NextAdminBulk == adminSendBulkNotifications(AdminLengths, MaxBulkRequests)

SpecAdminBulk == Init /\ [][NextAdminBulk]_vars

----------------------------------------------------------------------------
(* NotificationGrpcController.sendNotificationStream, the handler registered
   for SendNotificationStream *)

MaxStreamRequests == 3   \* requests a client sends on one stream

\* the response record of the registered handler
streamResponse(requestId, success, notificationId) ==
    [notificationId |-> notificationId, success |-> success]

\* Subject.next: a value passed after complete() is dropped
subjectNext(requestId, response) ==
    [answered |-> IF stream.completed THEN stream.answered
                  ELSE Append(stream.answered, requestId),
     completed |-> stream.completed,
     pending |-> stream.pending \ {requestId},
     requests |-> stream.requests,
     responses |-> IF stream.completed THEN stream.responses
                   ELSE Append(stream.responses, response)]

\* next: the callback starts the dispatch of the request and suspends at the await
streamNext(cap) ==
    /\ ~stream.completed
    /\ stream.requests < cap
    /\ stream' = [stream EXCEPT !.requests = stream.requests + 1,
                                !.pending = stream.pending \cup {stream.requests + 1}]
    /\ UNCHANGED <<notifications, userPreference, queues, retry, lastSend, reply, now,
                   templates, delivered, bulkTopic, consumer, grpcReply, cache,
                   renderer, monitor>>

\* the awaited dispatch of a request settles and the callback passes the
\* response to the subject
streamDispatched(types) ==
    \E requestId \in stream.pending, type \in types :
        /\ \/ /\ sendNotification("u1", type, Absent, Absent, NoSchedule)
              /\ stream' = subjectNext(requestId,
                               streamResponse(requestId, TRUE, Len(notifications) + 1))
           \/ /\ sendNotificationStoreError
              /\ stream' = subjectNext(requestId, streamResponse(requestId, FALSE, 0))
        /\ UNCHANGED <<userPreference, retry, reply, now, templates, delivered,
                       bulkTopic, consumer, grpcReply, cache, renderer, monitor>>

\* complete: the request stream ended; the subject completes at once
streamComplete ==
    /\ ~stream.completed
    /\ stream' = [stream EXCEPT !.completed = TRUE]
    /\ UNCHANGED <<notifications, userPreference, queues, retry, lastSend, reply, now,
                   templates, delivered, bulkTopic, consumer, grpcReply, cache,
                   renderer, monitor>>

NextStream ==
    \/ streamNext(MaxStreamRequests)
    \/ streamDispatched({"WELCOME", "ORDER_SHIPPED"})
    \/ streamComplete

SpecStream == Init /\ [][NextStream]_vars

----------------------------------------------------------------------------
(* TemplateRenderer: getCached and setCached *)

MaxCacheOps == 3   \* getCached and setCached calls after the cache was filled

\* private readonly maxSize = 500
maxSize == 500

\* private readonly ttlMs = 5 * 60 * 1000
ttlMs == 5 * 60 * 1000

\* this.cache.has(key)
cacheHas(entries, key) == \E i \in 1..Len(entries) : entries[i].key = key

\* this.cache.delete(key)
cacheDelete(entries, key) ==
    LET Other(entry) == entry.key # key
    IN  SelectSeq(entries, Other)

\* this.cache.set(key, entry): an existing key keeps its place in the
\* insertion order, a new key goes last
cacheSet(entries, key, timestamp, used) ==
    LET entry == [key |-> key, timestamp |-> timestamp, used |-> used]
    IN  IF cacheHas(entries, key)
        THEN [i \in 1..Len(entries) |-> IF entries[i].key = key THEN entry ELSE entries[i]]
        ELSE Append(entries, entry)

\* this.cache.get(key)
cacheGet(entries, key) ==
    entries[CHOOSE i \in 1..Len(entries) : entries[i].key = key]

getCached(keys, cap) ==
    \E key \in keys :
        /\ cache.uses < cap
        /\ cache' =
              [entries |->
                  IF ~cacheHas(cache.entries, key) THEN cache.entries
                  ELSE IF now - cacheGet(cache.entries, key).timestamp > ttlMs
                  THEN cacheDelete(cache.entries, key)
                  ELSE cacheSet(cacheDelete(cache.entries, key), key, now, cache.uses + 1),
               last |-> [key |-> key, op |-> "get"],
               uses |-> cache.uses + 1]
        /\ UNCHANGED <<notifications, userPreference, queues, retry, lastSend, reply, now,
                       templates, delivered, bulkTopic, consumer, grpcReply, stream,
                       renderer, monitor>>

setCached(keys, cap) ==
    \E key \in keys :
        /\ cache.uses < cap
        /\ cache' =
              [entries |->
                  cacheSet(IF Len(cache.entries) >= maxSize
                           THEN Tail(cache.entries)
                           ELSE cache.entries,
                           key, now, cache.uses + 1),
               last |-> [key |-> key, op |-> "set"],
               uses |-> cache.uses + 1]
        /\ UNCHANGED <<notifications, userPreference, queues, retry, lastSend, reply, now,
                       templates, delivered, bulkTopic, consumer, grpcReply, stream,
                       renderer, monitor>>

\* Date.now() advances by the time to live
cacheTick ==
    /\ now < MaxTime * ttlMs
    /\ now' = now + ttlMs
    /\ UNCHANGED <<notifications, userPreference, queues, retry, lastSend, reply,
                   templates, delivered, peripheryVars>>

\* the cache after setCached was called for maxSize - 1 distinct keys
FilledCache ==
    [entries |-> [i \in 1..(maxSize - 1) |-> [key |-> i, timestamp |-> 0, used |-> i]],
     last |-> [key |-> maxSize - 1, op |-> "set"],
     uses |-> maxSize - 1]

InitCache ==
    /\ notifications = <<>>
    /\ userPreference = {}
    /\ queues = [c \in NotificationChannel |-> <<>>]
    /\ retry = [p \in 1..MaxPasses |-> [pc |-> "idle", todo |-> <<>>]]
    /\ lastSend = [id |-> 0, channel |-> Absent, failed |-> {}]
    /\ reply = "none"
    /\ now = 0
    /\ templates = {}
    /\ delivered = {}
    /\ bulkTopic = NoBulk
    /\ consumer = NoMessage
    /\ grpcReply = NoReply
    /\ stream = NoStream
    /\ cache = FilledCache
    /\ renderer = NoRender
    /\ monitor = NewMonitor

\* the two oldest keys and two keys not cached yet
CacheKeys == {1, 2, maxSize, maxSize + 1}

NextCache ==
    \/ getCached(CacheKeys, maxSize - 1 + MaxCacheOps)
    \/ setCached(CacheKeys, maxSize - 1 + MaxCacheOps)
    \/ cacheTick

SpecCache == InitCache /\ [][NextCache]_vars

----------------------------------------------------------------------------
(* ChannelService.getNotificationTemplate over the cache of TemplateRenderer.
   The cache key is `${type}:${channel}`, here the pair <<type, channel>>;
   fetchedAt records, for every key, when its template was last read from
   the Store (NoSchedule: never) *)

TemplateKeys == {<<"WELCOME", "EMAIL">>, <<"ORDER_SHIPPED", "PUSH">>}

\* the entries after this.templateRenderer.getCached(key) at instant at
entriesAfterGet(entries, key, at, used) ==
    IF ~cacheHas(entries, key) THEN entries
    ELSE IF at - cacheGet(entries, key).timestamp > ttlMs
    THEN cacheDelete(entries, key)
    ELSE cacheSet(cacheDelete(entries, key), key, at, used)

\* what getCached(key) returns is not null
cachedAt(entries, key, at) ==
    cacheHas(entries, key) /\ ~(at - cacheGet(entries, key).timestamp > ttlMs)

\* the entries after this.templateRenderer.setCached(key, tpl) at instant at
entriesAfterSet(entries, key, at, used) ==
    cacheSet(IF Len(entries) >= maxSize THEN Tail(entries) ELSE entries, key, at, used)

getNotificationTemplateCached(keys, cap) ==
    \E key \in keys :
        LET hit == cachedAt(cache.entries, key, now)
            looked == entriesAfterGet(cache.entries, key, now, cache.uses + 1)
            tpl == key \in templates
        IN  /\ cache.uses < cap
            /\ cache' =
                  [entries |-> IF hit \/ ~tpl THEN looked
                               ELSE entriesAfterSet(looked, key, now, cache.uses + 1),
                   fetchedAt |-> IF hit \/ ~tpl THEN cache.fetchedAt
                                 ELSE [cache.fetchedAt EXCEPT ![key] = now],
                   last |-> [key |-> key,
                             op |-> IF hit THEN "cached" ELSE IF tpl THEN "fetched"
                                    ELSE "null"],
                   uses |-> cache.uses + 1]
            /\ UNCHANGED <<notifications, userPreference, queues, retry, lastSend, reply,
                           now, templates, delivered, bulkTopic, consumer, grpcReply,
                           stream, renderer, monitor>>

InitTemplateCache ==
    /\ notifications = <<>>
    /\ userPreference = {}
    /\ queues = [c \in NotificationChannel |-> <<>>]
    /\ retry = [p \in 1..MaxPasses |-> [pc |-> "idle", todo |-> <<>>]]
    /\ lastSend = [id |-> 0, channel |-> Absent, failed |-> {}]
    /\ reply = "none"
    /\ now = 0
    /\ templates = {}
    /\ delivered = {}
    /\ bulkTopic = NoBulk
    /\ consumer = NoMessage
    /\ grpcReply = NoReply
    /\ stream = NoStream
    /\ cache = [entries |-> <<>>,
                fetchedAt |-> [key \in TemplateKeys |-> NoSchedule],
                last |-> [key |-> <<>>, op |-> "none"],
                uses |-> 0]
    /\ renderer = NoRender
    /\ monitor = NewMonitor

NextTemplateCache ==
    \/ TemplateStored(TemplateKeys)
    \/ getNotificationTemplateCached(TemplateKeys, MaxCacheOps)
    \/ cacheTick

SpecTemplateCache == InitTemplateCache /\ [][NextTemplateCache]_vars

----------------------------------------------------------------------------
(* TemplateRenderer.render.  A string is a sequence of tokens: a piece of
   plain text or a placeholder {{key}}; an absent or empty htmlContent is <<>> *)

MaxRenders == 2   \* successive applications of render
MaxTokens == 2    \* tokens in the title of a template

Text(t) == <<"text", t>>

\* the text the pattern new RegExp(`{{${key}}}`, 'g') matches
Placeholder(key) == <<"placeholder", key>>

\* string.replace(placeholder, String(value)): every match is replaced
replace(string, key, value) ==
    Concat([i \in 1..Len(string) |->
               IF string[i] = Placeholder(key) THEN value ELSE <<string[i]>>])

\* the loop over Object.entries(variables), in insertion order
RECURSIVE render(_, _)
render(template, variables) ==
    IF variables = <<>> THEN template
    ELSE LET key == Head(variables).key
             value == Head(variables).value
         IN  render([htmlContent |-> IF template.htmlContent # <<>>
                                    THEN replace(template.htmlContent, key, value)
                                    ELSE template.htmlContent,
                     message |-> replace(template.message, key, value),
                     title |-> replace(template.title, key, value)],
                    Tail(variables))

\* render applied to the template, then to its own result
Render(cap) ==
    /\ Len(renderer.results) < cap
    /\ renderer' =
          [renderer EXCEPT !.results =
              Append(renderer.results,
                     render(IF renderer.results = <<>> THEN renderer.template
                            ELSE renderer.results[Len(renderer.results)],
                            renderer.variables))]
    /\ UNCHANGED <<notifications, userPreference, queues, retry, lastSend, reply, now,
                   templates, delivered, bulkTopic, consumer, grpcReply, stream,
                   cache, monitor>>

\* the tokens of the inputs
Tokens == {Text("x"), Placeholder("a"), Placeholder("b")}

\* strings of at most n tokens
Strings(n) == UNION {[1..k -> Tokens] : k \in 0..n}

\* variable maps over the keys a and b, in either insertion order
VariableMaps ==
    {<<>>}
    \cup {<<[key |-> k, value |-> v]>> : k \in {"a", "b"}, v \in Strings(1)}
    \cup {<<[key |-> k[1], value |-> v], [key |-> k[2], value |-> w]>> :
            k \in {<<"a", "b">>, <<"b", "a">>}, v \in Strings(1), w \in Strings(1)}

InitRender ==
    /\ notifications = <<>>
    /\ userPreference = {}
    /\ queues = [c \in NotificationChannel |-> <<>>]
    /\ retry = [p \in 1..MaxPasses |-> [pc |-> "idle", todo |-> <<>>]]
    /\ lastSend = [id |-> 0, channel |-> Absent, failed |-> {}]
    /\ reply = "none"
    /\ now = 0
    /\ templates = {}
    /\ delivered = {}
    /\ bulkTopic = NoBulk
    /\ consumer = NoMessage
    /\ grpcReply = NoReply
    /\ stream = NoStream
    /\ cache = EmptyCache
    /\ \E title \in Strings(MaxTokens), message \in Strings(1),
          htmlContent \in {<<>>, <<Placeholder("b")>>}, variables \in VariableMaps :
          renderer = [results |-> <<>>,
                      template |-> [htmlContent |-> htmlContent, message |-> message,
                                    title |-> title],
                      variables |-> variables]
    /\ monitor = NewMonitor

NextRender == Render(MaxRenders)

SpecRender == InitRender /\ [][NextRender]_vars

----------------------------------------------------------------------------
(* PerformanceMonitor.  A sample keeps the fields isHealthy reads, and the
   error counter it was computed from; errorRate is the fraction num / den *)

MaxProcessed == 21   \* recordProcessed calls (1 error in 21 is below 5%, in 20 is not)
MaxErrors == 1       \* recordError calls
MaxSamples == 2      \* collectMetrics calls

\* if (this.metrics.length > 100) this.metrics = this.metrics.slice(-100)
metricsWindow == 100

recordProcessed(cap) ==
    /\ monitor.totalProcessed < cap
    /\ monitor' = [monitor EXCEPT !.totalProcessed = monitor.totalProcessed + 1]
    /\ UNCHANGED <<notifications, userPreference, queues, retry, lastSend, reply, now,
                   templates, delivered, bulkTopic, consumer, grpcReply, stream,
                   cache, renderer>>

recordError(cap) ==
    /\ monitor.totalErrors < cap
    /\ monitor' = [monitor EXCEPT !.totalErrors = monitor.totalErrors + 1]
    /\ UNCHANGED <<notifications, userPreference, queues, retry, lastSend, reply, now,
                   templates, delivered, bulkTopic, consumer, grpcReply, stream,
                   cache, renderer>>

\* totalProcessed > 0 ? (totalErrors / totalProcessed) * 100 : 0
errorRate ==
    IF monitor.totalProcessed > 0
    THEN [num |-> monitor.totalErrors * 100, den |-> monitor.totalProcessed]
    ELSE [num |-> 0, den |-> 1]

\* the lengths of getWaiting() over the three queues
queueDepthsTotal ==
    Cardinality(WaitingJobs("EMAIL")) + Cardinality(WaitingJobs("PUSH"))
        + Cardinality(WaitingJobs("SMS"))

\* the lengths of getActive() over the three queues
activeWorkersTotal ==
    Cardinality(ActiveJobs("EMAIL")) + Cardinality(ActiveJobs("PUSH"))
        + Cardinality(ActiveJobs("SMS"))

\* the timer callback: take a sample, keep the last metricsWindow samples
collectMetrics(cap) ==
    LET metrics == [activeWorkers |-> activeWorkersTotal,
                    errorRate |-> errorRate,
                    queueDepths |-> queueDepthsTotal,
                    totalErrors |-> monitor.totalErrors,
                    totalProcessed |-> monitor.totalProcessed]
        pushed == Append(monitor.metrics, metrics)
    IN  /\ Len(monitor.metrics) < cap
        /\ monitor' = [monitor EXCEPT !.metrics =
                          IF Len(pushed) > metricsWindow
                          THEN SubSeq(pushed, Len(pushed) - metricsWindow + 1, Len(pushed))
                          ELSE pushed]
        /\ UNCHANGED <<notifications, userPreference, queues, retry, lastSend, reply,
                       now, templates, delivered, bulkTopic, consumer, grpcReply,
                       stream, cache, renderer>>

\* a sample standing for null
NoMetrics == [activeWorkers |-> 0, errorRate |-> [num |-> 0, den |-> 1],
              queueDepths |-> 0, totalErrors |-> 0, totalProcessed |-> 0]

getCurrentMetrics ==
    IF Len(monitor.metrics) > 0 THEN monitor.metrics[Len(monitor.metrics)] ELSE NoMetrics

\* errorRate < 5 is num / den < 5
isHealthy ==
    LET current == getCurrentMetrics
    IN  IF Len(monitor.metrics) = 0 THEN FALSE
        ELSE /\ current.errorRate.num < 5 * current.errorRate.den
             /\ current.queueDepths < 1000
             /\ current.activeWorkers > 0

NextMonitor ==
    \/ recordProcessed(MaxProcessed)
    \/ recordError(MaxErrors)
    \/ collectMetrics(MaxSamples)
    \/ /\ notifications = <<>>
       /\ Request({"u1"}, {"WELCOME"}, {"EMAIL"}, {Absent}, {NoSchedule}, MaxNotifs)
    \/ ProcessStart("EMAIL")
    \/ sendEmail({"ok"})

SpecMonitor == Init /\ [][NextMonitor]_vars

----------------------------------------------------------------------------
(* The lookup model: requests whose preference lookup succeeds or fails, *)
(* preference updates, and the push and SMS processors                   *)
NextLookup ==
    \/ UpdatePreferences({"u1"})
    \/ Request({"u1"}, {"ORDER_SHIPPED"}, {"SMS", Absent}, {Absent}, {NoSchedule},
               MaxNotifs)
    \/ RequestPreferenceError({"u1"}, {"ORDER_SHIPPED"}, {"SMS", Absent}, MaxNotifs)
    \/ \E c \in {"PUSH", "SMS"} : ProcessStart(c)
    \/ sendPush({"ok"})
    \/ sendSMS({"ok"})

SpecLookup == Init /\ [][NextLookup]_vars

----------------------------------------------------------------------------
(* NotificationGrpcController.sendBulkNotificationsOptimized *)

\* const batchSize = 50
optimizedBatchSize == 50

\* the batches are awaited one after the other and their settled results
\* pushed in order
optimizedBatches(items) ==
    Concat([k \in 1..((Len(items) + optimizedBatchSize - 1) \div optimizedBatchSize) |->
               slice(items, (k - 1) * optimizedBatchSize,
                     (k - 1) * optimizedBatchSize + optimizedBatchSize)])

\* the id read from a settled result: every promise carries
\* .catch(error => ({error, notification})), so a failed dispatch is fulfilled
\* with an object that has no id (0 stands for undefined)
settledId(results, i) ==
    IF results[i].failed THEN 0
    ELSE Len(notifications) + Len(Succeeded(SubSeq(results, 1, i)))

\* the response computed from the settled results, all of them fulfilled
optimizedResponse(results, served) ==
    [failureCount |-> 0,
     notificationIds |-> [i \in 1..Len(results) |-> settledId(results, i)],
     results |-> results,
     served |-> served,
     success |-> TRUE,
     successCount |-> Len(results)]

grpcSendBulkNotificationsOptimized(types, failures, cap) ==
    \E n \in 0..MaxBulkItems :
        \E itemTypes \in [1..n -> types], failure \in failures :
            LET results == Outcome(optimizedBatches([i \in 1..n |->
                                                        BulkItem(i, itemTypes[i])]),
                                   failure \cap 1..n)
            IN  /\ grpcReply.served < cap
                /\ sendNotifications(results)
                /\ grpcReply' = optimizedResponse(results, grpcReply.served + 1)
                /\ UNCHANGED <<userPreference, retry, now, templates, delivered,
                               bulkTopic, consumer, stream, cache, renderer, monitor>>

NextGrpcOptimized ==
    grpcSendBulkNotificationsOptimized({"WELCOME", "ORDER_SHIPPED", "PAYMENT_FAILED"},
                                       {{}, {1}, {2}, {1, 3}, 1..(MaxBulkItems + 1)},
                                       MaxBulkCalls)

SpecGrpcOptimized == Init /\ [][NextGrpcOptimized]_vars

----------------------------------------------------------------------------
(* Vocabulary of the properties *)

RowIds == 1..Len(notifications)

\* the channels on whose queue a job references notification id
JobChannels(id) == {c \in NotificationChannel : queues[c][id].state # "none"}

\* the channels the user has switched on in user_preferences
EnabledChannels(userId) ==
    {pref.channel : pref \in {q \in userPreference : q.userId = userId /\ q.isEnabled}}

HasPreferenceRows(userId) == \E pref \in userPreference : pref.userId = userId

DefaultSet(type) == Range(defaultChannels(type))

\* this step is a sendNotification call that persisted a row
SendStep == Len(notifications') = Len(notifications) + 1

\* this step is such a call with no channel pinned
UnpinnedSendStep == SendStep /\ lastSend'.channel = Absent

\* in a SendStep: the row the call persisted, and the channels it enqueued on
NewRowOfStep == notifications'[Len(notifications')]

NewJobChannels ==
    {c \in NotificationChannel : queues'[c][Len(notifications')].state # "none"}

----------------------------------------------------------------------------
(* Dispatch policy: C1, C2, C3 (checked under SpecDispatch) *)

\* C1: an unpinned sendNotification for a user who has at least one
\* preference row enqueues jobs on exactly the type's default channels
\* intersected with the channels the user has enabled.
C1_PreferenceIntersection ==
    [][(UnpinnedSendStep /\ HasPreferenceRows(NewRowOfStep.userId))
        => NewJobChannels =
             DefaultSet(NewRowOfStep.type) \cap EnabledChannels(NewRowOfStep.userId)]_vars

\* C2: after a sendNotification call that pinned a channel, the jobs that
\* reference the new notification are exactly one, on the pinned channel's
\* queue, whatever the preferences and the type's defaults.
C2_PinnedChannel ==
    (lastSend.id # 0 /\ lastSend.channel # Absent)
        => JobChannels(lastSend.id) = {lastSend.channel}

\* C2 witness: PUSH was pinned for a WELCOME notification (default EMAIL) of
\* a user who has PUSH disabled, and the one job is on the push queue.
C2_Witness ==
    /\ lastSend.id # 0
    /\ lastSend.channel = "PUSH"
    /\ notifications[lastSend.id].type = "WELCOME"
    /\ [userId |-> notifications[lastSend.id].userId, channel |-> "PUSH",
        isEnabled |-> FALSE] \in userPreference
    /\ JobChannels(lastSend.id) = {"PUSH"}

\* C3: an unpinned sendNotification enqueues on every default channel of the
\* type when the user has no preference row, and on the default channels
\* the user has enabled (possibly none) when the user has rows.
C3_IntersectionSkippedOnlyWithoutRows ==
    [][UnpinnedSendStep
        => NewJobChannels =
             IF HasPreferenceRows(NewRowOfStep.userId)
             THEN DefaultSet(NewRowOfStep.type) \cap EnabledChannels(NewRowOfStep.userId)
             ELSE DefaultSet(NewRowOfStep.type)]_vars

----------------------------------------------------------------------------
(* Notification lifecycle: C4, C5, C6, C7, C9, C10 (checked under Spec) *)

\* C4: SENT is terminal: no step changes the status of a notification whose
\* status is SENT.
C4_SentIsTerminal ==
    [][\A i \in RowIds :
        notifications[i].status = "SENT" => notifications'[i].status = "SENT"]_vars

AllowedTransitions ==
    {<<"QUEUED", "PROCESSING">>, <<"PROCESSING", "SENT">>,
     <<"PROCESSING", "FAILED">>, <<"FAILED", "QUEUED">>}

\* C5: every change of a notification's status is QUEUED->PROCESSING,
\* PROCESSING->SENT, PROCESSING->FAILED or FAILED->QUEUED.
C5_StatusTransitions ==
    [][\A i \in RowIds :
        notifications'[i].status # notifications[i].status
            => <<notifications[i].status, notifications'[i].status>> \in AllowedTransitions]_vars

\* C6: a notification whose sentAt is set has status SENT.
C6_SentAtOnlyWhenSent ==
    \A i \in RowIds : notifications[i].sentAt => notifications[i].status = "SENT"

\* C7: every SENT notification has sentAt set and every FAILED notification
\* has failedAt set.
C7_TimestampsSet ==
    \A i \in RowIds :
        /\ notifications[i].status = "SENT" => notifications[i].sentAt
        /\ notifications[i].status = "FAILED" => notifications[i].failedAt

\* C7 witness: one notification is SENT and another is FAILED.
C7_Witness ==
    \E i, j \in RowIds :
        /\ notifications[i].status = "SENT" /\ notifications[i].sentAt
        /\ notifications[j].status = "FAILED" /\ notifications[j].failedAt

\* C9: once a job has failed three times in a row in the channel adapter,
\* its notification is FAILED with retryCount = 3 (so that no retry pass
\* selects it again).
C9_ThreeAdapterFailuresExhaust ==
    \A c \in NotificationChannel : \A i \in RowIds :
        (queues[c][i].state = "failed" /\ queues[c][i].adapterOnly)
            => /\ notifications[i].status = "FAILED"
               /\ notifications[i].retryCount = 3

\* C10: when a retry pass re-dispatches the row it selected, that same row
\* is back in status QUEUED and a waiting job references its id.
C10_RetryRequeuesSameNotification ==
    [][\A p \in DOMAIN retry :
        (retry[p].pc = "send" /\ retry'[p].pc = "update")
            => /\ notifications'[Head(retry[p].todo).id].status = "QUEUED"
               /\ \E c \in NotificationChannel :
                    queues'[c][Head(retry[p].todo).id].state = "waiting"]_vars

----------------------------------------------------------------------------
(* Retry counter: C8 (checked under SpecRetry) *)

\* C8: every notification has retryCount <= 3.
C8_RetryCountBounded ==
    \A i \in RowIds : notifications[i].retryCount <= 3

\* C8 witness: a notification has reached retryCount = 3 while a concurrent
\* pass, whose snapshot of that row is older, is still about to write it.
C8_Witness ==
    \E i \in RowIds : \E p \in DOMAIN retry :
        /\ notifications[i].retryCount = 3
        /\ retry[p].pc # "idle"
        /\ Head(retry[p].todo).id = i
        /\ Head(retry[p].todo).retryCount < 3

----------------------------------------------------------------------------
(* Bounded retrying: C11 (checked under SpecExhaust) *)

\* the jobs ever added to the queues
AllJobs == {<<c, i>> \in NotificationChannel \X RowIds : queues[c][i].state # "none"}

\* C11: for one accepted request whose adapter always fails, the rows and
\* the jobs created on its behalf never exceed the first dispatch plus one
\* re-dispatch per allowed retry (MAX_RETRIES = 3), however many retry
\* passes run.
C11_RetryingIsBounded ==
    /\ Len(notifications) <= 1 + RetryLimit
    /\ Cardinality(AllJobs) <= 1 + RetryLimit

----------------------------------------------------------------------------
(* Scheduled delivery: C12 (checked under SpecSchedule) *)

Max(a, b) == IF a >= b THEN a ELSE b

\* the job in slot i of queue c has not been handed to a processor yet
Untaken(job) == job.state = "waiting" /\ job.attemptsMade = 0

\* C12: a job added by sendNotification is held until max(time of the
\* call, scheduledAt), and until the time of the call when scheduledAt is
\* absent; no job is taken before that instant; and while scheduledAt is
\* still ahead the notification exists, is QUEUED, and none of its jobs
\* has been taken.
C12_HeldUntilScheduledAt ==
    [][/\ SendStep =>
            \A c \in NewJobChannels :
                delayUntil(queues'[c][Len(notifications')]) =
                    IF NewRowOfStep.scheduledAt = NoSchedule
                    THEN now
                    ELSE Max(now, NewRowOfStep.scheduledAt)
       /\ \A c \in NotificationChannel : \A i \in RowIds :
            (queues[c][i].state = "waiting" /\ queues'[c][i].state = "active")
                => delayUntil(queues[c][i]) <= now
       /\ \A i \in 1..Len(notifications') :
            (notifications'[i].scheduledAt # NoSchedule
                /\ now' < notifications'[i].scheduledAt)
                => /\ notifications'[i].status = "QUEUED"
                   /\ \A c \in NotificationChannel :
                        queues'[c][i].state # "none" => Untaken(queues'[c][i])]_vars

\* C12 witness: a request made before its scheduledAt was held, and its job
\* was taken when the clock reached scheduledAt.
C12_Witness ==
    \E c \in NotificationChannel : \E i \in RowIds :
        /\ queues[c][i].state = "active"
        /\ queues[c][i].timestamp < notifications[i].scheduledAt
        /\ notifications[i].scheduledAt = now
        /\ notifications[i].status = "PROCESSING"

----------------------------------------------------------------------------
(* Priority order: C13 (checked under SpecPriority) *)

\* C13: when a processor takes a job from a queue, no other job that is
\* ready on that queue was requested with a higher priority
\* (URGENT 20 > HIGH 10 > NORMAL 5 > LOW 1, absent = NORMAL).
C13_HigherPriorityFirst ==
    [][\A c \in NotificationChannel : \A j \in RowIds :
        (queues[c][j].state = "waiting" /\ queues'[c][j].state = "active")
            => \A i \in WaitingJobs(c) :
                 delayUntil(queues[c][i]) <= now
                    => getPriority(notifications[i].priority)
                         <= getPriority(notifications[j].priority)]_vars

----------------------------------------------------------------------------
(* Persist, then enqueue: C14, C15, C16 (checked under SpecIngress) *)

\* this step is a sendNotification call that returned normally
SuccessfulSendStep == SendStep /\ lastSend'.failed = {}

\* in a SendStep: the jobs on queue c that carry the id of the new row
NewJobsOn(c) ==
    {slot \in 1..Len(queues'[c]) :
        /\ queues'[c][slot].state # "none"
        /\ queues'[c][slot].notificationId = Len(notifications')}

\* C14: a sendNotification call adds at most one row; a call that returns
\* normally adds one row, QUEUED with retryCount 0, and one job carrying
\* the row's id on the queue of each target channel and none elsewhere;
\* and every job in every queue carries the id of an existing row.
C14_OneRowOneJobPerChannel ==
    [][/\ Len(notifications') \in {Len(notifications), Len(notifications) + 1}
       /\ SuccessfulSendStep =>
            /\ NewRowOfStep.status = "QUEUED"
            /\ NewRowOfStep.retryCount = 0
            /\ \A c \in NotificationChannel :
                 Cardinality(NewJobsOn(c)) =
                    IF c \in Range(determineChannels(NewRowOfStep.type, lastSend'.channel,
                                        getUserPreferences(NewRowOfStep.userId)))
                    THEN 1 ELSE 0
       /\ \A c \in NotificationChannel : \A slot \in 1..Len(queues'[c]) :
            queues'[c][slot].state # "none"
                => queues'[c][slot].notificationId \in 1..Len(notifications')]_vars

\* C14 witness: the second row was persisted by a call without a pinned
\* channel that returned normally; it is QUEUED with retryCount 0 and the
\* push and SMS queues each hold a job carrying its id.
C14_Witness ==
    /\ lastSend = [id |-> 2, channel |-> Absent, failed |-> {}]
    /\ Len(notifications) = 2
    /\ notifications[2].status = "QUEUED"
    /\ notifications[2].retryCount = 0
    /\ queues["PUSH"][2].state = "waiting" /\ queues["PUSH"][2].notificationId = 2
    /\ queues["SMS"][2].state = "waiting" /\ queues["SMS"][2].notificationId = 2
    /\ queues["EMAIL"][2].state = "none"

\* C15: a step in which the caller gets the store's failure back leaves
\* the notifications table and every queue as they were.
C15_StoreFailureWritesNothing ==
    [][(reply' = "store_error" /\ reply # "store_error")
        => /\ notifications' = notifications
           /\ queues' = queues]_vars

\* C15 witness: after one accepted request, a second call failed in the
\* store: the caller got the failure and there is still one row.
C15_Witness ==
    /\ reply = "store_error"
    /\ Len(notifications) = 1
    /\ lastSend.id = 1

\* the rows a retry pass would select now
Selected == {t.id : t \in Range(findFailed(notifications))}

\* C16: a notification none of whose jobs could be enqueued is QUEUED and
\* is among the rows a retry pass selects.
C16_EnqueueFailureIsRetried ==
    (lastSend.failed # {} /\ JobChannels(lastSend.id) = {})
        => /\ notifications[lastSend.id].status = "QUEUED"
           /\ lastSend.id \in Selected

----------------------------------------------------------------------------
(* Processor runs: C17, C18 (checked under Spec), C19 (SpecRecipient) *)

\* in this step the run of the job in slot i of queue c ended in failure
RunFailed(c, i) ==
    queues[c][i].state = "active" /\ queues'[c][i].state \in {"waiting", "failed"}

\* in this step the run of the job in slot i of queue c ended in success
RunSucceeded(c, i) ==
    queues[c][i].state = "active" /\ queues'[c][i].state = "completed"

\* C17: whenever a run of a job ends in failure, in any of the three
\* processors, its notification is FAILED (with failedAt set) at the end of
\* that step; in particular it is not left in PROCESSING.
C17_FailedRunMarksFailed ==
    [][\A c \in NotificationChannel : \A i \in RowIds :
        RunFailed(c, i)
            => /\ notifications'[queues[c][i].notificationId].status = "FAILED"
               /\ notifications'[queues[c][i].notificationId].failedAt]_vars

\* C18: a notification is SENT only if an adapter accepted a message for a
\* job that carries its id; and a run that ends in success has handed its
\* message to the adapter and leaves the notification SENT.
C18_SentOnlyAfterDelivery ==
    [][/\ \A i \in 1..Len(notifications') :
            notifications'[i].status = "SENT"
                => \E m \in delivered' : m.notificationId = i
       /\ \A c \in NotificationChannel : \A i \in RowIds :
            RunSucceeded(c, i)
                => /\ notifications'[queues[c][i].notificationId].status = "SENT"
                   /\ \E m \in delivered' :
                        /\ m.channel = c
                        /\ m.notificationId = queues[c][i].notificationId]_vars

\* C18 witness: the SMS job of a notification completed after its push job
\* had failed: the message went out by SMS and the notification is SENT.
C18_Witness ==
    \E i \in RowIds :
        /\ notifications[i].status = "SENT"
        /\ queues["SMS"][i].state = "completed"
        /\ queues["PUSH"][i].attemptsMade > 0
        /\ \E m \in delivered : m.channel = "SMS" /\ m.notificationId = i

\* C19: a run that finds no recipient hands nothing to the adapter and
\* moves the notification from PROCESSING to FAILED; the job is failed for
\* good only after 3 attempts, and from then on the notification is FAILED.
C19_MissingRecipientFailsForGood ==
    [][\A c \in NotificationChannel : \A i \in RowIds :
        /\ RunFailed(c, i)
            => /\ delivered' = delivered
               /\ notifications[queues[c][i].notificationId].status = "PROCESSING"
               /\ notifications'[queues[c][i].notificationId].status = "FAILED"
        /\ queues'[c][i].state = "failed"
            => /\ queues'[c][i].attemptsMade = Attempts
               /\ notifications'[queues'[c][i].notificationId].status = "FAILED"]_vars

----------------------------------------------------------------------------
(* Content: C20 (checked under SpecTemplate) *)

\* C20: the message a processor hands to its adapter is rendered from the
\* active template stored for (the notification's type, the job's channel)
\* when there is one, and is the raw title and message otherwise.
C20_ContentFromTemplate ==
    [][\A m \in delivered' \ delivered :
        m.template =
            IF <<notifications[m.notificationId].type, m.channel>> \in templates
            THEN <<notifications[m.notificationId].type, m.channel>>
            ELSE <<>>]_vars

----------------------------------------------------------------------------
(* Bulk consumption *)

\* the last message handled was a bulk message
BulkHandled ==
    /\ consumer.handled > 0
    /\ consumer.message.topic = "notification.bulk"
    /\ consumer.message.kind = "json"
    /\ consumer.message.hasBulk

\* the calls made for item i of the last message
CallsOf(i) == {j \in 1..Len(consumer.calls) : consumer.calls[j].item = i}

\* C21: a bulk message of n notifications is handled in ceil(n/100) sub-batches
\* of at most 100 items (all full but the last), the dispatcher is called
\* exactly once per item whichever dispatches fail, and the handler returns
\* normally.
C21_BulkBatches ==
    BulkHandled =>
        LET n == consumer.message.length
            sizes == consumer.batches
        IN  /\ Len(sizes) = (n + 99) \div 100
            /\ \A k \in 1..Len(sizes) :
                  sizes[k] = IF k * 100 <= n THEN 100 ELSE n - (k - 1) * 100
            /\ Len(consumer.calls) = n
            /\ \A i \in 1..n : Cardinality(CallsOf(i)) = 1
            /\ consumer.returned

\* 250 notifications, handled as 100, 100 and 50, with failing dispatches
\* before later ones
C21_Witness ==
    /\ BulkHandled
    /\ consumer.batches = <<100, 100, 50>>
    /\ consumer.calls[100].failed
    /\ ~consumer.calls[250].failed
    /\ Len(notifications) >= 248

----------------------------------------------------------------------------
(* Event demultiplexing *)

\* a step in which the consumer handles a message
HandleStep == consumer'.handled = consumer.handled + 1

\* the table of the specification: the notification an event causes (type "" for none)
TableAction(topic, eventType) ==
    LET Row(type, channel, priority) ==
            [type |-> type, channel |-> channel, priority |-> priority]
    IN  CASE topic = "user.events" /\ eventType = "USER_REGISTERED" ->
                Row("WELCOME", "EMAIL", "NORMAL")
          [] topic = "auth.events" /\ eventType = "PASSWORD_RESET_REQUESTED" ->
                Row("PASSWORD_RESET", "EMAIL", "HIGH")
          [] topic = "auth.events" /\ eventType = "EMAIL_VERIFICATION_REQUESTED" ->
                Row("EMAIL_VERIFICATION", "EMAIL", "NORMAL")
          [] topic = "order.events" /\ eventType = "ORDER_CREATED" ->
                Row("ORDER_CONFIRMATION", "EMAIL", "NORMAL")
          [] topic = "order.events" /\ eventType = "ORDER_SHIPPED" ->
                Row("ORDER_SHIPPED", "PUSH", "NORMAL")
          [] topic = "order.events" /\ eventType = "ORDER_DELIVERED" ->
                Row("ORDER_DELIVERED", "PUSH", "NORMAL")
          [] topic = "payment.events" /\ eventType = "PAYMENT_SUCCESS" ->
                Row("PAYMENT_SUCCESS", "EMAIL", "NORMAL")
          [] topic = "payment.events" /\ eventType = "PAYMENT_FAILED" ->
                Row("PAYMENT_FAILED", "EMAIL", "HIGH")
          [] OTHER -> Row("", "", "")

\* C26: an event whose eventType its topic recognises causes exactly one
\* dispatcher call with the type, pinned channel and priority of the table (and,
\* when the call succeeds, one row and one job on that channel); USER_UPDATED,
\* an unrecognised eventType and an unknown topic create no row and no job.
C26_EventTable ==
    [][(/\ HandleStep
        /\ consumer'.message.kind = "json"
        /\ ~(consumer'.message.topic = "notification.bulk" /\ consumer'.message.hasBulk))
       => LET action == TableAction(consumer'.message.topic, consumer'.message.eventType)
              calls == consumer'.calls
              id == Len(notifications) + 1
          IN  IF action.type = ""
              THEN /\ calls = <<>>
                   /\ notifications' = notifications
                   /\ queues' = queues
              ELSE /\ Len(calls) = 1
                   /\ calls[1].type = action.type
                   /\ calls[1].channel = action.channel
                   /\ getPriority(calls[1].priority) = getPriority(action.priority)
                   /\ calls[1].failed =>
                         notifications' = notifications /\ queues' = queues
                   /\ ~calls[1].failed =>
                         /\ Len(notifications') = id
                         /\ notifications'[id].type = action.type
                         /\ notifications'[id].channel = action.channel
                         /\ notifications'[id].priority = action.priority
                         /\ \A c \in NotificationChannel :
                               /\ Len(queues'[c]) = id
                               /\ queues'[c][id].state =
                                     IF c = action.channel THEN "waiting" ELSE "none"
                               /\ c = action.channel =>
                                     queues'[c][id].priority = getPriority(action.priority)
      ]_vars

\* a failed payment was dispatched with high priority after an event that
\* causes nothing
C26_Witness ==
    /\ consumer.handled = 2
    /\ consumer.message.topic = "payment.events"
    /\ consumer.message.eventType = "PAYMENT_FAILED"
    /\ Len(consumer.calls) = 1
    /\ ~consumer.calls[1].failed
    /\ Len(notifications) = 1
    /\ notifications[1].priority = "HIGH"
    /\ queues["EMAIL"][1].state = "waiting"

\* C27: handleMessage returns normally for every message (empty, unparseable,
\* of unknown shape, or with a failing dispatch), so the offset of every message
\* handled is committed and the messages after it are handled.
C27_HandlerAlwaysReturns ==
    /\ consumer.returned
    /\ consumer.offset = consumer.handled

\* the second message is an event whose dispatch fails; both offsets are committed
C27_Witness ==
    /\ consumer.handled = 2
    /\ consumer.offset = 2
    /\ consumer.message.kind = "json"
    /\ Len(consumer.calls) = 1
    /\ consumer.calls[1].failed

----------------------------------------------------------------------------
(* gRPC bulk *)

\* positions of the request whose dispatch failed
FailedItems == {i \in 1..Len(grpcReply.results) : grpcReply.results[i].failed}

\* C22: for a SendBulkNotifications request of n items, successCount +
\* failureCount = n, failureCount is the number of failed dispatches,
\* notificationIds are the ids of the successCount notifications dispatched, in
\* request order, success holds iff failureCount = 0, and every item whose own
\* dispatch does not fail is dispatched.
C22_BulkResponse ==
    grpcReply.served > 0 =>
        LET n == Len(grpcReply.results)
            ids == grpcReply.notificationIds
            IsOk(result) == ~result.failed
            ok == SelectSeq(grpcReply.results, IsOk)
        IN  /\ grpcReply.successCount + grpcReply.failureCount = n
            /\ grpcReply.failureCount = Cardinality(FailedItems)
            /\ Len(ids) = grpcReply.successCount
            /\ \A j, k \in 1..Len(ids) : j # k => ids[j] # ids[k]
            /\ \A k \in 1..Len(ids) :
                  /\ ids[k] \in 1..Len(notifications)
                  /\ notifications[ids[k]].type = ok[k].type
            /\ Len(notifications) >= grpcReply.successCount
            /\ grpcReply.success <=> grpcReply.failureCount = 0

\* three items, the second fails: two ids, success false
C22_Witness ==
    /\ grpcReply.served > 0
    /\ Len(grpcReply.results) = 3
    /\ FailedItems = {2}
    /\ grpcReply.notificationIds = <<1, 2>>
    /\ ~grpcReply.success

----------------------------------------------------------------------------
(* Admin bulk endpoint *)

RECURSIVE SumOfLengths(_)
SumOfLengths(messages) ==
    IF messages = <<>> THEN 0
    ELSE Head(messages).length + SumOfLengths(Tail(messages))

\* C23: the admin bulk endpoint accepts a request iff it carries 1 to 10,000
\* notifications; a request with none or with 10,001 or more is rejected and
\* publishes nothing on the bulk topic, and an accepted request publishes all
\* its notifications.
C23_BulkLimits ==
    [][bulkTopic'.requests = bulkTopic.requests + 1 =>
        LET length == bulkTopic'.length
            published == SubSeq(bulkTopic'.messages, Len(bulkTopic.messages) + 1,
                                Len(bulkTopic'.messages))
        IN  /\ bulkTopic'.status = "CREATED" <=> (length >= 1 /\ length <= 10000)
            /\ bulkTopic'.status = "BAD_REQUEST" <=> (length < 1 \/ length >= 10001)
            /\ bulkTopic'.status = "BAD_REQUEST" => published = <<>>
            /\ bulkTopic'.status = "CREATED" => SumOfLengths(published) = length
      ]_vars

\* a request of 10,001 notifications was rejected after one of 10,000 was
\* published
C23_Witness ==
    /\ bulkTopic.requests = 2
    /\ bulkTopic.length = 10001
    /\ bulkTopic.status = "BAD_REQUEST"
    /\ SumOfLengths(bulkTopic.messages) = 10000

----------------------------------------------------------------------------
(* gRPC stream *)

\* C24: SendNotificationStream emits one response per request: when the
\* response stream completes, the N requests received have their N responses.
C24_OneResponsePerRequest ==
    stream.completed => Len(stream.responses) = stream.requests

\* C25: every response of the registered stream handler carries the requestId
\* of its request.
C25_ResponseCarriesRequestId ==
    \A k \in 1..Len(stream.responses) :
        /\ "requestId" \in DOMAIN stream.responses[k]
        /\ stream.responses[k].requestId = stream.answered[k]

----------------------------------------------------------------------------
(* Template cache *)

CachedKeys(c) == {c.entries[i].key : i \in 1..Len(c.entries)}

\* the key whose last insertion or hit is the oldest
LeastRecentlyUsed(c) ==
    c.entries[CHOOSE i \in 1..Len(c.entries) :
                 \A j \in 1..Len(c.entries) : c.entries[i].used <= c.entries[j].used].key

\* C28: setCached removes an entry only when the insertion would otherwise
\* exceed the capacity of 500 (the key is new and 500 entries are cached), and
\* the entry removed is the least recently used one.
C28_EvictsLeastRecentlyUsed ==
    [][(cache'.uses = cache.uses + 1 /\ cache'.last.op = "set")
       => LET removed == CachedKeys(cache) \ CachedKeys(cache')
          IN  removed # {} =>
                 /\ Len(cache.entries) = 500
                 /\ cache'.last.key \notin CachedKeys(cache)
                 /\ removed = {LeastRecentlyUsed(cache)}
      ]_vars

----------------------------------------------------------------------------
(* Rendering *)

\* C29: rendering is idempotent: render(render(t, v), v) = render(t, v) for
\* title, message and htmlContent, also when the value of a variable contains
\* the placeholder of another key.
C29_RenderIdempotent ==
    Len(renderer.results) >= 2 =>
        /\ renderer.results[2].title = renderer.results[1].title
        /\ renderer.results[2].message = renderer.results[1].message
        /\ renderer.results[2].htmlContent = renderer.results[1].htmlContent

----------------------------------------------------------------------------
(* Health *)

\* C30: isHealthy() holds iff a sample exists and, for the latest sample,
\* totalErrors / max(1, totalProcessed) is below 5%, the total queue depth is
\* below 1000 and the number of active workers is above 0; so once errors are
\* recorded with nothing processed, isHealthy() is false before and after the
\* next sample.
C30_HealthyIffLatestSampleGood ==
    isHealthy <=>
        /\ Len(monitor.metrics) > 0
        /\ LET sample == monitor.metrics[Len(monitor.metrics)]
               processed == IF sample.totalProcessed > 1 THEN sample.totalProcessed ELSE 1
           IN  /\ sample.totalErrors * 100 < 5 * processed
               /\ sample.queueDepths < 1000
               /\ sample.activeWorkers > 0

\* C31: the collector tracks the notifications processed: a sample collected
\* after a notification was dispatched and processed reports totalProcessed > 0.
C31_SampleCountsProcessed ==
    [][(/\ Len(monitor'.metrics) = Len(monitor.metrics) + 1
        /\ \E i \in 1..Len(notifications) : notifications[i].status = "SENT")
       => monitor'.metrics[Len(monitor'.metrics)].totalProcessed > 0
      ]_vars

----------------------------------------------------------------------------
(* Preference lookup *)

\* C32: a failure of the preference lookup does not prevent the dispatch: the
\* call succeeds and the row it created has a job on the pinned channel or,
\* without a pin, on each default channel of its type.
C32_LookupFailureStillDispatches ==
    [][(reply' = "preference_error" /\ Len(notifications') = Len(notifications) + 1)
       => LET id == Len(notifications')
              pinned == lastSend'.channel
              targets == IF pinned # Absent THEN {pinned}
                         ELSE Range(defaultChannels(notifications'[id].type))
          IN  \A c \in targets : queues'[c][id].state = "waiting"
      ]_vars

----------------------------------------------------------------------------
(* gRPC optimized bulk *)

\* C39: for SendBulkNotificationsOptimized, failureCount is the number of items
\* whose dispatch failed, successCount the number whose dispatch succeeded,
\* success holds iff no item failed, and notificationIds holds exactly the ids
\* of the notifications dispatched.
C39_OptimizedBulkResponse ==
    grpcReply.served > 0 =>
        LET failed == Cardinality(FailedItems)
            ids == grpcReply.notificationIds
        IN  /\ grpcReply.failureCount = failed
            /\ grpcReply.successCount = Len(grpcReply.results) - failed
            /\ grpcReply.success <=> failed = 0
            /\ Len(ids) = grpcReply.successCount
            /\ \A k \in 1..Len(ids) : ids[k] \in 1..Len(notifications)

----------------------------------------------------------------------------
(* Retry passes *)

RECURSIVE retryCountSum(_)
retryCountSum(rows) ==
    IF rows = <<>> THEN 0 ELSE Head(rows).retryCount + retryCountSum(Tail(rows))

\* the passes that have re-dispatched a row and not yet written its count
PendingUpdates == {p \in DOMAIN retry : retry[p].pc = "update"}

\* C34: under concurrent passes the retryCount of a row equals the number of
\* times a retry pass re-dispatched it.  Every row but the requested one is
\* the re-dispatch of some row, so, over all rows, the retryCounts written and
\* the writes still pending add up to the number of re-dispatched rows.
C34_RetryCountCountsRedispatches ==
    notifications # <<>> =>
        retryCountSum(notifications) + Cardinality(PendingUpdates)
            = Len(notifications) - 1

\* the row a pass re-dispatches in this step
Redispatched(p) == Head(retry[p].todo).id

RedispatchStep(p) == retry[p].pc = "send" /\ retry'[p].pc = "update"

\* C35: once a retry of a failed notification has been delivered, no later
\* pass re-dispatches that failed notification again.  When no row but the
\* re-dispatched one has ever been FAILED, every other row is a retry of it:
\* none of them has reached SENT.
C35_NoRetryAfterDeliveredRetry ==
    [][\A p \in DOMAIN retry :
          (/\ RedispatchStep(p)
           /\ \A j \in RowIds \ {Redispatched(p)} : ~notifications[j].failedAt)
             => \A j \in RowIds \ {Redispatched(p)} :
                   notifications[j].status # "SENT" ]_vars

\* the job of notification id on queue c is waiting (delayed for its backoff
\* included) or active
LiveJob(c, id) == queues[c][id].state \in {"waiting", "active"}

\* C36: a retry pass never re-dispatches a notification that still has a live
\* job: the row is re-dispatched only after the queue has exhausted the job's
\* 3 attempts.
C36_NoRedispatchWhileJobLive ==
    [][\A p \in DOMAIN retry :
          RedispatchStep(p) =>
              \A c \in NotificationChannel :
                  /\ ~LiveJob(c, Redispatched(p))
                  /\ queues[c][Redispatched(p)].state # "none" =>
                         queues[c][Redispatched(p)].attemptsMade = Attempts ]_vars

\* C37: a retry re-dispatches a notification to the same set of channels its
\* original dispatch targeted, and on no other channel.
C37_RetryKeepsChannels ==
    [][\A p \in DOMAIN retry :
          RedispatchStep(p) => NewJobChannels = JobChannels(Redispatched(p)) ]_vars

----------------------------------------------------------------------------
(* Failed dispatch *)

\* C38: whenever sendNotification reports failure after creating its
\* notification, no job that references that notification is in any queue.
C38_FailedDispatchLeavesNoJob ==
    [][(lastSend'.failed # {} /\ Len(notifications') = Len(notifications) + 1)
          => NewJobChannels = {} ]_vars

----------------------------------------------------------------------------
(* Template cache *)

\* C40: getNotificationTemplate never returns a cached template more than
\* 5 minutes after that template was last fetched from the Store.
C40_CachedTemplateWithinTtl ==
    [][(cache'.uses = cache.uses + 1 /\ cache'.last.op = "cached")
          => now - cache.fetchedAt[cache'.last.key] <= ttlMs ]_vars

====
